---- MODULE Spec2Model ----
(***************************************************************************)
(* Model of the Speakeasy backend (src/Main.py): a FastAPI application     *)
(* with four routes that delegate to a telephony client, a document store  *)
(* and a text-generation client.                                           *)
(*                                                                         *)
(* Texts that are spoken (messages, replies, exception texts) are          *)
(* sequences of one-character strings, so that the serialisation of the    *)
(* voice markup (escaping) and the "Error: " prefix are computed, not      *)
(* assumed.  Phone numbers, names, times and identifiers are opaque        *)
(* strings: the code never looks inside them.                              *)
(***************************************************************************)
EXTENDS Integers, Sequences, FiniteSets

\* ------------------------------------------------------------------ bounds
\* Number of HTTP requests a behaviour receives.
MaxRequests == 2

\* ------------------------------------------------------------- text values
Greeting ==
  <<"H","e","l","l","o",","," ","w","e","l","c","o","m","e"," ","t","o"," ",
    "S","p","e","a","k","e","a","s","y","."," ","H","o","w"," ","m","a","y",
    " ","I"," ","a","s","s","i","s","t"," ","y","o","u","?">>

ErrorPrefix == <<"E","r","r","o","r",":"," ">>

BookAnAppointment ==
  <<"b","o","o","k"," ","a","n"," ","a","p","p","o","i","n","t","m","e","n","t">>

InternalServerError ==
  <<"I","n","t","e","r","n","a","l"," ","S","e","r","v","e","r"," ",
    "E","r","r","o","r">>

ListIndexOutOfRange ==
  <<"l","i","s","t"," ","i","n","d","e","x"," ","o","u","t"," ","o","f"," ",
    "r","a","n","g","e">>

Timeout == <<"t","i","m","e","o","u","t">>

EntAmp == <<"&","a","m","p",";">>
EntLt == <<"&","l","t",";">>
EntGt == <<"&","g","t",";">>

\* ---------------------------------------------------- voice markup (TwiML)
\* Serialisation of element text: & < > become entities.
EscapeCharPlain(c) == <<c>>

EscapeChar(c) ==
  IF c = "&" THEN EntAmp
  ELSE IF c = "<" THEN EntLt
  ELSE IF c = ">" THEN EntGt
  ELSE <<c>>

RECURSIVE XmlEscape(_)
XmlEscape(s) ==
  IF s = <<>> THEN <<>> ELSE EscapeChar(Head(s)) \o XmlEscape(Tail(s))

StartsWith(s, p) == Len(s) >= Len(p) /\ SubSeq(s, 1, Len(p)) = p

\* What a reader of the markup recovers from an element's text.
RECURSIVE XmlUnescape(_)
XmlUnescape(s) ==
  IF s = <<>> THEN <<>>
  ELSE IF StartsWith(s, EntAmp)
    THEN <<"&">> \o XmlUnescape(SubSeq(s, Len(EntAmp) + 1, Len(s)))
  ELSE IF StartsWith(s, EntLt)
    THEN <<"<">> \o XmlUnescape(SubSeq(s, Len(EntLt) + 1, Len(s)))
  ELSE IF StartsWith(s, EntGt)
    THEN <<">">> \o XmlUnescape(SubSeq(s, Len(EntGt) + 1, Len(s)))
  ELSE <<Head(s)>> \o XmlUnescape(Tail(s))

\* VoiceResponse(): an empty list of verbs.
VoiceResponse == <<>>

\* response.say(message, voice=..., language=...)
say(response, message, voice, language) ==
  Append(response, [tag |-> "Say",
                    attrs |-> [voice |-> voice, language |-> language],
                    text |-> message])

\* response.listen(), where the class has such a method: a Listen verb.
listen(response) ==
  Append(response, [tag |-> "Listen", attrs |-> <<>>, text |-> <<>>])

\* str(response): the document, with every element's text escaped.
str(response) ==
  [root |-> "Response",
   children |-> [k \in 1..Len(response) |->
                   [response[k] EXCEPT !.text = XmlEscape(@)]]]

IsSay(el) == el.tag = "Say"

RECURSIVE SayTexts(_)
SayTexts(children) ==
  IF children = <<>> THEN <<>>
  ELSE IF IsSay(Head(children))
    THEN <<XmlUnescape(Head(children).text)>> \o SayTexts(Tail(children))
  ELSE SayTexts(Tail(children))

\* The texts a markup document speaks, in order.
Spoken(doc) == SayTexts(doc.children)

\* ----------------------------------------------------------- configuration
TWILIO_PHONE_NUMBER == "+15005550006"

\* ------------------------------------------------------ handler outcomes
Return(v) == [raised |-> FALSE, value |-> v]
Raise(e) == [raised |-> TRUE, exc |-> e]

HTTPException(status_code, detail) ==
  [cls |-> "HTTPException", status_code |-> status_code, detail |-> detail]

PlainTextResponse(content, media_type) ==
  [content |-> content, media_type |-> media_type]

\* Classes that derive from Exception among those the clients raise.
ExceptionClasses ==
  {"TwilioRestException", "ConnectionError", "GoogleAPICallError",
   "OpenAIError", "IndexError", "AttributeError", "HTTPException"}

\* "except <clause> as e" catches e.
ExceptCatches(clause, e) ==
  \/ clause = e.cls
  \/ clause = "Exception" /\ e.cls \in ExceptionClasses

\* str(e)
StrExc(e) == e.text

\* What the framework sends for a handler's outcome: a returned dict is a
\* 200 JSON body, a returned response object is sent as is, an
\* HTTPException becomes its status with {"detail": ...}, anything else
\* that escapes the handler is a plain 500.
Respond(result) ==
  IF ~result.raised
    THEN IF "media_type" \in DOMAIN result.value
           THEN [status |-> 200, media |-> result.value.media_type,
                 body |-> result.value.content]
           ELSE [status |-> 200, media |-> "application/json",
                 body |-> result.value]
  ELSE IF result.exc.cls = "HTTPException"
    THEN [status |-> result.exc.status_code, media |-> "application/json",
          body |-> [detail |-> result.exc.detail]]
  ELSE [status |-> 500, media |-> "text/plain",
        body |-> [text |-> InternalServerError]]

\* ------------------------------------------------------------------- state
VARIABLES
  reqs,             \* the requests received so far, in order of arrival
  appointments,     \* the "appointments" collection: identifier -> record
  twilio_calls,     \* calls.create requests issued, with the issuing request
  firestore_adds,   \* collection add requests issued
  openai_requests,  \* ChatCompletion.create requests issued
  helper_runs,      \* runs of handle_conversation: prompt, outcome, result
  up,               \* the external services are currently reachable
  has_listen        \* VoiceResponse of the installed library has "listen"

\* The telephony library is imported unpinned (line 6).  Its VoiceResponse
\* class offers say, play, gather, record, dial, pause, hangup, redirect, ...
\* and, in the published releases, no listen; has_listen is fixed when the
\* process starts and covers both kinds of build.

vars ==
  <<reqs, appointments, twilio_calls, firestore_adds, openai_requests,
    helper_runs, up, has_listen>>

\* ------------------------------------------------------------ input values
PhoneNumbers == {"+14155550100", "not-a-number"}

Messages == { <<"a","<","b">>, EntLt }

\* CallRequest(BaseModel)
CallRequest == [phone_number : PhoneNumbers, message : Messages]

\* AppointmentRequest(BaseModel)
AppointmentRequest ==
  [client_name : {"Ann"},
   doctor_name : {"Dr. Lee"},
   time : {"2025-10-16T10:30:00Z", "tomorrow 10am"}]

SpeechResults == { <<>>, BookAnAppointment }

\* Form bodies of the webhook: SpeechResult is optional.
Forms ==
  {[CallSid |-> "CA0"]}
    \cup {[CallSid |-> "CA0", SpeechResult |-> s] : s \in SpeechResults}

\* form.get(key, default)
FormGet(form, key, default) ==
  IF key \in DOMAIN form THEN form[key] ELSE default

\* ------------------------------------------------------ external services
Sids == {"CA1", "CA2"}
DocIds == {"doc1", "doc2", "doc3"}
Replies == { <<"1","<","2">> }

ConnectionError == [cls |-> "ConnectionError", text |-> Timeout]

\* Outcomes of twilio_client.calls.create(...)
TwilioOutcomes(reachable) ==
  IF ~reachable THEN {Raise(ConnectionError)}
  ELSE {Return([sid |-> s]) : s \in Sids}
         \cup {Raise([cls |-> "TwilioRestException",
                      text |-> <<"2","1","2","1","1">>])}

\* Outcomes of db.collection("appointments").add(...): a pair
\* (update_time, document reference) with a generated identifier that no
\* document of the collection has yet.
FirestoreOutcomes(reachable, store) ==
  IF ~reachable THEN {Raise(ConnectionError)}
  ELSE {Return(<<"update_time", [id |-> d]>>) : d \in DocIds \ DOMAIN store}
         \cup {Raise([cls |-> "GoogleAPICallError",
                      text |-> <<"d","e","n","i","e","d">>])}

Choice(c) == [message |-> [role |-> "assistant", content |-> c]]

\* Outcomes of openai.ChatCompletion.create(...)
OpenAIOutcomes(reachable) ==
  IF ~reachable THEN {Raise(ConnectionError)}
  ELSE {Return([choices |-> <<Choice(c)>>]) : c \in Replies}
         \cup {Return([choices |-> <<Choice(<<"O","K">>), Choice(<<"n","o">>)>>]),
               Return([choices |-> <<>>]),
               Raise([cls |-> "OpenAIError",
                      text |-> <<"r","a","t","e">>])}

\* Variant: the write replaces the collection's content.
db_set(store, id, data) == [d \in {id} |-> data]

\* The collection after add(data) generated identifier id.
db_add(store, id, data) ==
  [d \in DOMAIN store \cup {id} |-> IF d = id THEN data ELSE store[d]]

\* ---------------------------------------------------------------- handlers
\* Each handler yields the external requests it issued (calls) and how it
\* ended (result); outcome is what its external client call produced.

\* Variant: the probe reports the state of the services.
root_checks_services ==
  [calls |-> <<>>,
   result |-> IF up
                THEN Return([message |-> "Speakeasy running"])
                ELSE Raise(HTTPException(503, <<"d","o","w","n">>))]

\* root()
root == [calls |-> <<>>, result |-> Return([message |-> "Speakeasy running"])]

\* Variant: origin and destination exchanged.
make_call_swapped(request, outcome) ==
  LET response == say(VoiceResponse, request.message, "alice", "en-US")
      create == [to |-> TWILIO_PHONE_NUMBER,
                 from_ |-> request.phone_number,
                 twiml |-> str(response)]
  IN [calls |-> <<create>>,
      result |->
        IF ~outcome.raised
          THEN Return([status |-> "initiated", sid |-> outcome.value.sid])
        ELSE IF ExceptCatches("Exception", outcome.exc)
          THEN Raise(HTTPException(500, StrExc(outcome.exc)))
        ELSE Raise(outcome.exc)]

\* Variant: a failed call-creation is attempted a second time.
make_call_retry(request, outcome) ==
  LET response == say(VoiceResponse, request.message, "alice", "en-US")
      create == [to |-> request.phone_number,
                 from_ |-> TWILIO_PHONE_NUMBER,
                 twiml |-> str(response)]
  IN [calls |-> IF outcome.raised THEN <<create, create>> ELSE <<create>>,
      result |->
        IF ~outcome.raised
          THEN Return([status |-> "initiated", sid |-> outcome.value.sid])
        ELSE IF ExceptCatches("Exception", outcome.exc)
          THEN Raise(HTTPException(500, StrExc(outcome.exc)))
        ELSE Raise(outcome.exc)]

\* make_call(request)
make_call(request, outcome) ==
  LET response == say(VoiceResponse, request.message, "alice", "en-US")
      create == [to |-> request.phone_number,
                 from_ |-> TWILIO_PHONE_NUMBER,
                 twiml |-> str(response)]
  IN [calls |-> <<create>>,
      result |->
        IF ~outcome.raised
          THEN Return([status |-> "initiated", sid |-> outcome.value.sid])
        ELSE IF ExceptCatches("Exception", outcome.exc)
          THEN Raise(HTTPException(500, StrExc(outcome.exc)))
        ELSE Raise(outcome.exc)]

\* A time string after a parse and re-format of ISO-8601 input.
NormalizeTime(t) ==
  IF t = "2025-10-16T10:30:00Z" THEN "2025-10-16T10:30:00+00:00" ELSE t

\* Variant: the time is parsed and re-formatted before it is stored.
create_appointment_reformat(request, outcome) ==
  LET data == [client_name |-> request.client_name,
               doctor_name |-> request.doctor_name,
               time |-> NormalizeTime(request.time)]
  IN [calls |-> <<data>>,
      result |->
        IF ~outcome.raised
          THEN Return([status |-> "success",
                       appointment_id |-> outcome.value[2].id])
        ELSE IF ExceptCatches("Exception", outcome.exc)
          THEN Raise(HTTPException(500, StrExc(outcome.exc)))
        ELSE Raise(outcome.exc)]

\* Variant: only the store's own error class is caught.
create_appointment_narrow(request, outcome) ==
  LET data == [client_name |-> request.client_name,
               doctor_name |-> request.doctor_name,
               time |-> request.time]
  IN [calls |-> <<data>>,
      result |->
        IF ~outcome.raised
          THEN Return([status |-> "success",
                       appointment_id |-> outcome.value[2].id])
        ELSE IF ExceptCatches("GoogleAPICallError", outcome.exc)
          THEN Raise(HTTPException(500, StrExc(outcome.exc)))
        ELSE Raise(outcome.exc)]

\* create_appointment(request)
create_appointment(request, outcome) ==
  LET data == [client_name |-> request.client_name,
               doctor_name |-> request.doctor_name,
               time |-> request.time]
  IN [calls |-> <<data>>,
      result |->
        IF ~outcome.raised
          THEN Return([status |-> "success",
                       appointment_id |-> outcome.value[2].id])
        ELSE IF ExceptCatches("Exception", outcome.exc)
          THEN Raise(HTTPException(500, StrExc(outcome.exc)))
        ELSE Raise(outcome.exc)]

DefaultModel == "gpt-3.5-turbo"

\* Variant: the prompts of earlier turns are sent along.
chat_messages_history(prompt) ==
  [k \in 1..Len(helper_runs) |->
     [role |-> "user", content |-> helper_runs[k].prompt]]
    \o <<[role |-> "user", content |-> prompt]>>

\* messages=[{"role": "user", "content": prompt}]
chat_messages(prompt) == <<[role |-> "user", content |-> prompt]>>

\* Variant: no try/except around the completion request.
handle_conversation_raises(prompt, model, outcome) ==
  [calls |-> <<[model |-> model, messages |-> chat_messages(prompt)]>>,
   result |->
     IF ~outcome.raised
       THEN IF outcome.value.choices = <<>>
              THEN Raise([cls |-> "IndexError", text |-> ListIndexOutOfRange])
              ELSE Return(outcome.value.choices[1].message.content)
     ELSE Raise(outcome.exc)]

\* handle_conversation(prompt, model)
handle_conversation(prompt, model, outcome) ==
  [calls |-> <<[model |-> model, messages |-> chat_messages(prompt)]>>,
   result |->
     IF ~outcome.raised
       THEN IF outcome.value.choices = <<>>
              THEN Return(ErrorPrefix \o ListIndexOutOfRange)
              ELSE Return(outcome.value.choices[1].message.content)
     ELSE IF ExceptCatches("Exception", outcome.exc)
       THEN Return(ErrorPrefix \o StrExc(outcome.exc))
     ELSE Raise(outcome.exc)]

\* twilio_voice(request), after the form has been read.  listen_defined tells
\* whether the VoiceResponse class of the installed telephony library has
\* a listen method; without one the attribute lookup raises.
twilio_voice(form, outcome, listen_defined) ==
  LET speech_result == FormGet(form, "SpeechResult", <<>>)
      conv == handle_conversation(speech_result, DefaultModel, outcome)
      calls == IF speech_result # <<>> THEN conv.calls ELSE <<>>
      helper == IF speech_result # <<>>
                  THEN <<[prompt |-> speech_result, result |-> conv.result]>>
                  ELSE <<>>
  IN IF speech_result # <<>> /\ conv.result.raised
       THEN [calls |-> calls, helper |-> helper, result |-> conv.result]
     ELSE
       LET openai_reply == IF speech_result # <<>>
                             THEN conv.result.value ELSE Greeting
           response == say(VoiceResponse, openai_reply, "alice", "en-US")
       IN [calls |-> calls,
           helper |-> helper,
           result |->
             IF listen_defined
               THEN Return(PlainTextResponse(str(listen(response)),
                                             "application/xml"))
               ELSE Raise([cls |-> "AttributeError",
                           text |-> <<"l","i","s","t","e","n">>])]

\* ------------------------------------------------------------- transitions
NoOutcome == [pending |-> TRUE]
NoResponse == [status |-> 0]
NoBody == [none |-> TRUE]

Init ==
  /\ reqs = <<>>
  /\ appointments = <<>>
  /\ twilio_calls = <<>>
  /\ firestore_adds = <<>>
  /\ openai_requests = <<>>
  /\ helper_runs = <<>>
  /\ up = TRUE
  /\ has_listen \in BOOLEAN

\* The external requests of a handler run, tagged with the request index.
Tagged(i, calls) == [k \in 1..Len(calls) |-> [req |-> i, args |-> calls[k]]]

Finish(i, h, outcome) ==
  reqs' = [reqs EXCEPT ![i].pc = "done",
                       ![i].outcome = IF h.calls = <<>> THEN NoOutcome
                                      ELSE outcome,
                       ![i].resp = Respond(h.result)]

\* A request arrives and is routed (its body already validated).
Receive(kind, body) ==
  /\ Len(reqs) < MaxRequests
  /\ reqs' = Append(reqs, [kind |-> kind, body |-> body, pc |-> "received",
                           outcome |-> NoOutcome, resp |-> NoResponse])
  /\ UNCHANGED <<appointments, twilio_calls, firestore_adds, openai_requests,
                 helper_runs, up, has_listen>>

ReceiveRoot == Receive("root", NoBody)
ReceiveCall == \E b \in CallRequest : Receive("call", b)
ReceiveAppointment == \E b \in AppointmentRequest : Receive("appointment", b)
ReceiveVoice == \E f \in Forms : Receive("voice", f)

\* GET /
Root(i) ==
  /\ reqs[i].kind = "root" /\ reqs[i].pc = "received"
  /\ Finish(i, root, NoOutcome)
  /\ UNCHANGED <<appointments, twilio_calls, firestore_adds, openai_requests,
                 helper_runs, up, has_listen>>

\* POST /call
MakeCall(i) ==
  /\ reqs[i].kind = "call" /\ reqs[i].pc = "received"
  /\ \E outcome \in TwilioOutcomes(up) :
       LET h == make_call(reqs[i].body, outcome)
       IN /\ twilio_calls' = twilio_calls \o Tagged(i, h.calls)
          /\ Finish(i, h, outcome)
  /\ UNCHANGED <<appointments, firestore_adds, openai_requests, helper_runs,
                 up, has_listen>>

\* POST /appointment
CreateAppointment(i) ==
  /\ reqs[i].kind = "appointment" /\ reqs[i].pc = "received"
  /\ \E outcome \in FirestoreOutcomes(up, appointments) :
       LET h == create_appointment(reqs[i].body, outcome)
       IN /\ firestore_adds' = firestore_adds \o Tagged(i, h.calls)
          /\ appointments' =
               IF h.calls # <<>> /\ ~outcome.raised
                 THEN db_add(appointments, outcome.value[2].id, h.calls[1])
                 ELSE appointments
          /\ Finish(i, h, outcome)
  /\ UNCHANGED <<twilio_calls, openai_requests, helper_runs, up, has_listen>>

\* POST /twilio/voice: await request.form()
ReadForm(i) ==
  /\ reqs[i].kind = "voice" /\ reqs[i].pc = "received"
  /\ reqs' = [reqs EXCEPT ![i].pc = "parsed"]
  /\ UNCHANGED <<appointments, twilio_calls, firestore_adds, openai_requests,
                 helper_runs, up, has_listen>>

\* POST /twilio/voice: the rest of the handler
TwilioVoice(i) ==
  /\ reqs[i].kind = "voice" /\ reqs[i].pc = "parsed"
  /\ \E outcome \in OpenAIOutcomes(up) :
       LET h == twilio_voice(reqs[i].body, outcome, has_listen)
       IN /\ openai_requests' = openai_requests \o Tagged(i, h.calls)
          /\ helper_runs' =
               helper_runs \o [k \in 1..Len(h.helper) |->
                                 [req |-> i, prompt |-> h.helper[k].prompt,
                                  outcome |-> outcome,
                                  result |-> h.helper[k].result]]
          /\ Finish(i, h, outcome)
  /\ UNCHANGED <<appointments, twilio_calls, firestore_adds, up, has_listen>>

\* The external services become unreachable or reachable again.
ServiceChange ==
  /\ up' = ~up
  /\ UNCHANGED <<reqs, appointments, twilio_calls, firestore_adds,
                 openai_requests, helper_runs, has_listen>>

Next ==
  \/ ReceiveRoot
  \/ ReceiveCall
  \/ ReceiveAppointment
  \/ ReceiveVoice
  \/ \E i \in 1..Len(reqs) : Root(i)
  \/ \E i \in 1..Len(reqs) : MakeCall(i)
  \/ \E i \in 1..Len(reqs) : CreateAppointment(i)
  \/ \E i \in 1..Len(reqs) : ReadForm(i)
  \/ \E i \in 1..Len(reqs) : TwilioVoice(i)
  \/ ServiceChange

Spec == Init /\ [][Next]_vars

\* ------------------------------------------------------------- observations
Done(i) == reqs[i].pc = "done"

\* The external call of request i returned, respectively raised.
Succeeded(i) ==
  Done(i) /\ "raised" \in DOMAIN reqs[i].outcome /\ ~reqs[i].outcome.raised

Failed(i) ==
  Done(i) /\ "raised" \in DOMAIN reqs[i].outcome /\ reqs[i].outcome.raised

IssuedBy(log, i) == {k \in DOMAIN log : log[k].req = i}

ExternalCalls(i) ==
  Cardinality(IssuedBy(twilio_calls, i))
    + Cardinality(IssuedBy(firestore_adds, i))
    + Cardinality(IssuedBy(openai_requests, i))

JsonOk(body) == [status |-> 200, media |-> "application/json", body |-> body]

Speech(i) == FormGet(reqs[i].body, "SpeechResult", <<>>)

\* The document speaks exactly text and has a listen instruction after it.
SpeaksThenListens(doc, text) ==
  /\ Spoken(doc) = <<text>>
  /\ \E j, k \in DOMAIN doc.children :
       j < k /\ doc.children[j].tag = "Say" /\ doc.children[k].tag = "Listen"

IsMarkupResponse(resp) == resp.status = 200 /\ resp.media = "application/xml"

\* ------------------------------------------------------------------- claims

\* C1: when the provider's call-creation succeeds, POST /call has placed the
\* call to the submitted number, from the configured origin number, with a
\* script whose only instruction speaks exactly the submitted message, and
\* answers {"status": "initiated", "sid": s}, s the non-empty identifier the
\* provider returned.
C1_CallInitiated ==
  \A i \in DOMAIN reqs :
    (reqs[i].kind = "call" /\ Succeeded(i)) =>
      /\ IssuedBy(twilio_calls, i) # {}
      /\ \A k \in IssuedBy(twilio_calls, i) :
           /\ twilio_calls[k].args.to = reqs[i].body.phone_number
           /\ twilio_calls[k].args.from_ = TWILIO_PHONE_NUMBER
           /\ Len(twilio_calls[k].args.twiml.children) = 1
           /\ Spoken(twilio_calls[k].args.twiml) = <<reqs[i].body.message>>
      /\ reqs[i].outcome.value.sid # ""
      /\ reqs[i].resp = JsonOk([status |-> "initiated",
                                sid |-> reqs[i].outcome.value.sid])

C1_Witness ==
  \E i \in DOMAIN reqs :
    /\ reqs[i].kind = "call" /\ Succeeded(i)
    /\ reqs[i].body.message = EntLt
    /\ reqs[i].resp.body.sid = "CA2"

\* C2: when the external client call of POST /call or POST /appointment
\* raises, whatever the class, the request ends with HTTP 500 and a detail
\* equal to the exception's text, never with a success body or another status.
C2_Uniform500 ==
  \A i \in DOMAIN reqs :
    (reqs[i].kind \in {"call", "appointment"} /\ Failed(i)) =>
      reqs[i].resp = [status |-> 500, media |-> "application/json",
                      body |-> [detail |-> reqs[i].outcome.exc.text]]

C2_Witness ==
  \E i, j \in DOMAIN reqs :
    /\ reqs[i].kind = "call" /\ Failed(i)
    /\ reqs[j].kind = "appointment" /\ Failed(j)
    /\ reqs[i].outcome.exc.cls = "TwilioRestException"
    /\ reqs[j].outcome.exc.cls = "ConnectionError"

\* C3: when the store insert succeeds, POST /appointment answers
\* {"status": "success", "appointment_id": id} with the non-empty generated
\* identifier, and the collection holds under id a record with exactly the
\* submitted client_name, doctor_name and time, the time unchanged.
C3_AppointmentStored ==
  \A i \in DOMAIN reqs :
    (reqs[i].kind = "appointment" /\ Succeeded(i)) =>
      LET id == reqs[i].outcome.value[2].id
      IN /\ id # ""
         /\ reqs[i].resp = JsonOk([status |-> "success",
                                   appointment_id |-> id])
         /\ id \in DOMAIN appointments
         /\ appointments[id] = [client_name |-> reqs[i].body.client_name,
                                doctor_name |-> reqs[i].body.doctor_name,
                                time |-> reqs[i].body.time]

C3_Witness ==
  \E i \in DOMAIN reqs :
    /\ reqs[i].kind = "appointment" /\ Succeeded(i)
    /\ reqs[i].body.time = "2025-10-16T10:30:00Z"
    /\ appointments[reqs[i].resp.body.appointment_id].time
         = "2025-10-16T10:30:00Z"

\* C4: a webhook request whose SpeechResult is absent or empty is answered
\* with a markup document (application/xml) that speaks exactly the greeting
\* and then has a listen instruction, and issues no text-generation request.
C4_GreetingMarkup ==
  \A i \in DOMAIN reqs :
    (reqs[i].kind = "voice" /\ Done(i) /\ Speech(i) = <<>>) =>
      /\ IssuedBy(openai_requests, i) = {}
      /\ IsMarkupResponse(reqs[i].resp)
      /\ SpeaksThenListens(reqs[i].resp.body, Greeting)

\* C5: a webhook request with a non-empty SpeechResult sends that string as
\* the sole user message of exactly one text-generation request and is
\* answered with markup that speaks what the conversation helper yielded
\* (an "Error: ..." text when the provider failed), then listens.
C5_ReplyMarkup ==
  \A i \in DOMAIN reqs :
    (reqs[i].kind = "voice" /\ Done(i) /\ Speech(i) # <<>>) =>
      /\ Cardinality(IssuedBy(openai_requests, i)) = 1
      /\ \A k \in IssuedBy(openai_requests, i) :
           openai_requests[k].args.messages
             = <<[role |-> "user", content |-> Speech(i)]>>
      /\ \E k \in IssuedBy(helper_runs, i) :
           /\ ~helper_runs[k].result.raised
           /\ IsMarkupResponse(reqs[i].resp)
           /\ SpeaksThenListens(reqs[i].resp.body, helper_runs[k].result.value)

\* A step in which request i goes from not answered to answered.
Answers(i) == reqs[i].pc # "done" /\ reqs'[i].pc = "done"

\* C6: GET / is answered 200 {"message": "Speakeasy running"} in every state
\* and whatever the reachability of the three services; answering it issues
\* no external request and changes nothing but the request itself.
C6_HealthCheck ==
  [][\A i \in DOMAIN reqs :
       (reqs[i].kind = "root" /\ Answers(i)) =>
         /\ reqs'[i].resp = JsonOk([message |-> "Speakeasy running"])
         /\ reqs'[i].outcome = NoOutcome
         /\ UNCHANGED <<appointments, twilio_calls, firestore_adds,
                        openai_requests, helper_runs, up, has_listen>>
         /\ \A j \in DOMAIN reqs : j # i => reqs'[j] = reqs[j]]_vars

C6_Witness ==
  \E i \in DOMAIN reqs :
    /\ reqs[i].kind = "root" /\ Done(i)
    /\ ~up
    /\ reqs[i].resp.body.message = "Speakeasy running"

IsText(v) == DOMAIN v = 1..Len(v) /\ \A k \in DOMAIN v : v[k] \in STRING

\* C7: handle_conversation never raises: it returns the first choice's
\* content when the completion request succeeds, and "Error: " followed by
\* the exception text when the request raises; every run ends with a string.
C7_HelperNeverRaises ==
  \A k \in DOMAIN helper_runs :
    LET run == helper_runs[k]
    IN /\ ~run.result.raised
       /\ IsText(run.result.value)
       /\ run.outcome.raised =>
            run.result.value = ErrorPrefix \o run.outcome.exc.text
       /\ (~run.outcome.raised /\ run.outcome.value.choices # <<>>) =>
            run.result.value = run.outcome.value.choices[1].message.content

C7_Witness ==
  \E k, l \in DOMAIN helper_runs :
    /\ helper_runs[k].outcome.raised
    /\ helper_runs[k].result.value = ErrorPrefix \o Timeout
    /\ ~helper_runs[l].outcome.raised
    /\ Len(helper_runs[l].outcome.value.choices) = 2
    /\ helper_runs[l].result.value = <<"O","K">>

\* C8: the appointments collection is append-only: a record once inserted is
\* never modified or removed, and the collection changes only in a step that
\* answers a POST /appointment request.
C8_AppendOnly ==
  [][/\ \A d \in DOMAIN appointments :
          d \in DOMAIN appointments' /\ appointments'[d] = appointments[d]
     /\ DOMAIN appointments' # DOMAIN appointments =>
          \E i \in DOMAIN reqs :
            reqs[i].kind = "appointment" /\ Answers(i)]_vars

C8_Witness ==
  \E i, j \in DOMAIN reqs :
    /\ i < j
    /\ reqs[i].kind = "appointment" /\ Succeeded(i)
    /\ reqs[j].kind = "appointment" /\ Succeeded(j)
    /\ reqs[i].body.time # reqs[j].body.time
    /\ Cardinality(DOMAIN appointments) = 2

\* C9: every request issues at most one external request, also when that
\* request fails: POST /call at most one call-creation, POST /appointment at
\* most one insert, POST /twilio/voice at most one text-generation request.
C9_AtMostOneExternalCall ==
  \A i \in DOMAIN reqs :
    /\ ExternalCalls(i) <= 1
    /\ reqs[i].kind # "call" => IssuedBy(twilio_calls, i) = {}
    /\ reqs[i].kind # "appointment" => IssuedBy(firestore_adds, i) = {}
    /\ reqs[i].kind # "voice" => IssuedBy(openai_requests, i) = {}

C9_Witness ==
  \E i, j \in DOMAIN reqs :
    /\ reqs[i].kind = "call" /\ Failed(i) /\ ExternalCalls(i) = 1
    /\ reqs[j].kind = "voice" /\ Failed(j) /\ ExternalCalls(j) = 1

\* C10: the webhook is stateless across turns: two webhook requests with the
\* same form and the same provider reply get the same response whatever
\* came before each, and a text-generation request carries only the
\* SpeechResult of the request that issued it.
C10_Stateless ==
  /\ \A i, j \in DOMAIN reqs :
       (/\ reqs[i].kind = "voice" /\ Done(i)
        /\ reqs[j].kind = "voice" /\ Done(j)
        /\ reqs[i].body = reqs[j].body
        /\ reqs[i].outcome = reqs[j].outcome) =>
         reqs[i].resp = reqs[j].resp
  /\ \A k \in DOMAIN openai_requests :
       openai_requests[k].args.messages
         = <<[role |-> "user", content |-> Speech(openai_requests[k].req)]>>

C10_Witness ==
  \E i, j \in DOMAIN reqs :
    /\ i < j
    /\ reqs[i].kind = "voice" /\ Succeeded(i)
    /\ reqs[j].kind = "voice" /\ Succeeded(j)
    /\ Speech(i) # <<>>
    /\ reqs[i].body = reqs[j].body
    /\ reqs[i].outcome = reqs[j].outcome
    /\ Len(openai_requests) = 2
====
